---- MODULE Spec2Model ----
(***************************************************************************)
(* Model of the cardiology-feed pipeline: the fetch run                     *)
(* (fetch_cardiology_pubmed.py), the summarise/email run                    *)
(* (summarise_and_email.py) and the two ledger files they keep              *)
(* (state/seen_pmids.json, state/sent_pmids.json).                          *)
(*                                                                         *)
(* Strings that the code strips or sorts (identifiers) are sequences of     *)
(* one-character strings, so that strip() and sorted() are computed.        *)
(***************************************************************************)
EXTENDS Integers, Sequences, FiniteSets, TLC

VARIABLES
    seenFile,    \* state/seen_pmids.json
    sentFile,    \* state/sent_pmids.json
    latestFile,  \* the stable "latest" output JSON (--out)
    archives,    \* number of date-stamped archive JSONs written so far
    ft,          \* the fetch run: position in main() and its locals
    em,          \* the email run: position in main() and its locals
    clock,       \* number of runs started; stands for datetime.now()
    surfaced,    \* history: identifiers in the "articles" of the outputs of deduping
                 \* fetch runs, by earlier runs and by the current one
    emailed,     \* history: <<recipient, identifier>> delivered by email runs not in
                 \* test mode, by earlier runs and by the current one
    pin,         \* input of the pure function under check
    pout,        \* its result
    wk,          \* the weekly wrapper (run_weekly.py): position in main() and its args
    em2          \* a second email process, waiting while the one in em takes steps

vars == <<seenFile, sentFile, latestFile, archives, ft, em, clock, surfaced, emailed, pin, pout, wk, em2>>

(***************************************************************************)
(* Bounds                                                                   *)
(***************************************************************************)
MaxRuns == 3
MaxFetch == 2
MaxBucket == 3
MaxRecipients == 2
MaxItems == 2

(***************************************************************************)
(* Strings                                                                  *)
(***************************************************************************)
Range(s) == {s[i] : i \in 1..Len(s)}

Whitespace == {" ", "\t"}

RECURSIVE lstrip(_)
lstrip(s) == IF s # <<>> /\ Head(s) \in Whitespace THEN lstrip(Tail(s)) ELSE s

RECURSIVE rstrip(_)
rstrip(s) ==
    IF s # <<>> /\ s[Len(s)] \in Whitespace
    THEN rstrip(SubSeq(s, 1, Len(s) - 1))
    ELSE s

\* str.strip()
strip(s) == rstrip(lstrip(s))

\* Unicode code points of the characters identifiers are built from
ord(c) == CASE c = "\t" -> 9 [] c = " " -> 32 [] c = "1" -> 49
            [] c = "2" -> 50 [] c = "3" -> 51 [] c = "4" -> 52 [] c = "5" -> 53 [] OTHER -> 63

\* Python's str.__lt__: lexicographic by code point
RECURSIVE str_lt(_, _)
str_lt(a, b) ==
    IF b = <<>> THEN FALSE
    ELSE IF a = <<>> THEN TRUE
    ELSE IF ord(Head(a)) # ord(Head(b)) THEN ord(Head(a)) < ord(Head(b))
    ELSE str_lt(Tail(a), Tail(b))

\* sorted(set_of_str)
RECURSIVE sorted(_)
sorted(S) ==
    IF S = {} THEN <<>>
    ELSE LET m == CHOOSE x \in S : \A y \in S : x = y \/ str_lt(x, y)
         IN  <<m>> \o sorted(S \ {m})

(***************************************************************************)
(* Classification (fetch_cardiology_pubmed.py)                              *)
(***************************************************************************)
PRIORITY_PUB_TYPES ==
    {"Clinical Trial", "Randomized Controlled Trial", "Multicenter Study",
     "Meta-Analysis", "Systematic Review", "Observational Study",
     "Comparative Study", "Review"}

EXCLUDE_PUB_TYPES ==
    {"Editorial", "Comment", "Letter", "News", "Published Erratum",
     "Retraction of Publication", "Retracted Publication"}

\* classify_article with the priority check ahead of the exclude check
classify_priority_first(pub_types, has_abstract) ==
    IF pub_types \cap PRIORITY_PUB_TYPES # {}
    THEN (IF has_abstract THEN "priority" ELSE "priority_no_abstract")
    ELSE IF pub_types \cap EXCLUDE_PUB_TYPES # {} THEN "excluded"
    ELSE IF has_abstract THEN "standard"
    ELSE "low_priority"

classify_article(pub_types, has_abstract) ==
    IF pub_types \cap EXCLUDE_PUB_TYPES # {} THEN "excluded"
    ELSE IF pub_types \cap PRIORITY_PUB_TYPES # {}
         THEN (IF has_abstract THEN "priority" ELSE "priority_no_abstract")
    ELSE IF has_abstract THEN "standard"
    ELSE "low_priority"

\* parse_article: the record built from one PubmedArticle element.  The
\* abstract is kept as its length; phrase says whether title + abstract
\* contain one of the priority phrases of is_priority_study.
parse_article(pmid, pub_types, abstract_len, phrase) ==
    [pmid |-> pmid,
     publication_types |-> pub_types,
     abstract_len |-> abstract_len,
     phrase |-> phrase,
     category |-> classify_article(pub_types, abstract_len > 0)]

\* The articles the upstream source can return (efetch_details results)
Catalog ==
    << parse_article(<<"1">>, {"Randomized Controlled Trial"}, 250, FALSE),
       parse_article(<<"2", " ">>, {"Journal Article"}, 50, FALSE),
       parse_article(<<" ">>, {"Review"}, 250, FALSE),
       parse_article(<<"3">>, {"Editorial", "Randomized Controlled Trial"}, 250, TRUE),
       parse_article(<<"4">>, {}, 0, FALSE) >>

\* Subsequence of Catalog at a set of positions, in catalog order
RECURSIVE pick(_, _)
pick(idx, i) ==
    IF i > Len(Catalog) THEN <<>>
    ELSE (IF i \in idx THEN <<Catalog[i]>> ELSE <<>>) \o pick(idx, i + 1)

FetchResults ==
    {pick(idx, 1) : idx \in {s \in SUBSET (1..Len(Catalog)) : Cardinality(s) <= MaxFetch}}

RECURSIVE filter_loop(_, _, _)
filter_loop(articles, include_no_abstract, categorized) ==
    IF articles = <<>> THEN categorized
    ELSE LET article == Head(articles)
             cat == article.category
             bucket ==
                 IF cat = "excluded" THEN "excluded"
                 ELSE IF cat = "priority" THEN "priority"
                 ELSE IF cat = "priority_no_abstract"
                      THEN (IF include_no_abstract THEN "needs_review" ELSE "excluded")
                 ELSE IF cat = "standard" THEN "standard"
                 ELSE (IF include_no_abstract THEN "needs_review" ELSE "excluded")
         IN  filter_loop(Tail(articles), include_no_abstract,
                         [categorized EXCEPT ![bucket] = Append(@, article)])

EmptyBuckets ==
    [priority |-> <<>>, standard |-> <<>>, needs_review |-> <<>>, excluded |-> <<>>]

\* filter_and_categorize that does not keep the excluded records
filter_without_excluded(articles, include_no_abstract) ==
    [filter_loop(articles, include_no_abstract, EmptyBuckets) EXCEPT !.excluded = <<>>]

\* filter_and_categorize that takes the include flag as always set
filter_ignoring_flag(articles, include_no_abstract) ==
    filter_loop(articles, TRUE, EmptyBuckets)

filter_and_categorize(articles, include_no_abstract) ==
    filter_loop(articles, include_no_abstract, EmptyBuckets)

\* the digest without its standard records
prepare_digest_priority_only(categorized) == categorized.priority

\* main, "Prepare digest (priority + standard)"
prepare_digest(categorized) == categorized.priority \o categorized.standard

(***************************************************************************)
(* Files.  A JSON file is absent, truncated (opened for writing and not yet *)
(* dumped, or otherwise unparsable), or holds a document.  A ledger         *)
(* document carries updated_at and the list stored under its key.           *)
(***************************************************************************)
AbsentFile == [kind |-> "absent", updated_at |-> 0, items |-> <<>>]
TruncatedFile == [kind |-> "truncated", updated_at |-> 0, items |-> <<>>]
NotDictFile == [kind |-> "notdict", updated_at |-> 0, items |-> <<>>]
NotListFile == [kind |-> "notlist", updated_at |-> 0, items |-> <<>>]
LedgerFile(now, items) == [kind |-> "ledger", updated_at |-> now, items |-> items]

\* open(path, "w"): the file is created or truncated before anything is written
open_w(file) == TruncatedFile

Returned(pmids) == [raised |-> FALSE, pmids |-> pmids]
Raised == [raised |-> TRUE, pmids |-> {}]

\* read_seen with the comprehension's "if str(p).strip()" left out
read_seen_unfiltered(file) ==
    IF file.kind \in {"truncated", "notdict"} THEN Raised
    ELSE IF file.kind = "notlist" THEN Returned({})
    ELSE Returned({strip(p) : p \in Range(file.items)})

\* The try body of load_seen_pmids: json.load, data.get, isinstance, the
\* set comprehension.
read_seen(file) ==
    IF file.kind \in {"truncated", "notdict"} THEN Raised
    ELSE IF file.kind = "notlist" THEN Returned({})
    ELSE Returned({strip(p) : p \in Range(file.items)} \ {<<>>})

load_seen_pmids(file) ==
    IF file.kind = "absent" THEN Returned({})
    ELSE LET r == read_seen(file)
         IN  IF r.raised THEN Returned({}) ELSE r

\* save_seen_pmids writing only the smallest identifier
save_seen_first_only(now, seen_pmids) ==
    LedgerFile(now, IF seen_pmids = {} THEN <<>> ELSE <<Head(sorted(seen_pmids))>>)

save_seen_payload(now, seen_pmids) == LedgerFile(now, sorted(seen_pmids))

RECURSIVE dedupe_loop(_, _, _, _)
dedupe_loop(articles, seen_pmids, new_articles, removed) ==
    IF articles = <<>> THEN [kept |-> new_articles, removed |-> removed]
    ELSE LET a == Head(articles)
             pmid == strip(a.pmid)
         IN  IF pmid = <<>>
             THEN dedupe_loop(Tail(articles), seen_pmids, Append(new_articles, a), removed)
             ELSE IF pmid \in seen_pmids
             THEN dedupe_loop(Tail(articles), seen_pmids, new_articles, removed + 1)
             ELSE dedupe_loop(Tail(articles), seen_pmids, Append(new_articles, a), removed)

\* dedupe_articles_by_pmid comparing the identifier as fetched, not stripped
RECURSIVE dedupe_unstripped(_, _, _, _)
dedupe_unstripped(articles, seen_pmids, new_articles, removed) ==
    IF articles = <<>> THEN [kept |-> new_articles, removed |-> removed]
    ELSE LET a == Head(articles)
             pmid == a.pmid
         IN  IF pmid = <<>>
             THEN dedupe_unstripped(Tail(articles), seen_pmids, Append(new_articles, a), removed)
             ELSE IF pmid \in seen_pmids
             THEN dedupe_unstripped(Tail(articles), seen_pmids, new_articles, removed + 1)
             ELSE dedupe_unstripped(Tail(articles), seen_pmids, Append(new_articles, a), removed)

dedupe_by_raw_pmid(articles, seen_pmids) ==
    dedupe_unstripped(articles, seen_pmids, <<>>, 0)

dedupe_articles_by_pmid(articles, seen_pmids) ==
    dedupe_loop(articles, seen_pmids, <<>>, 0)

\* update_seen saving only the identifiers of this run
update_seen_new_only(seen_pmids, deduped_digest) ==
    {strip(a.pmid) : a \in Range(deduped_digest)} \ {<<>>}

\* update_seen adding the identifiers as the records carry them
update_seen_raw(seen_pmids, deduped_digest) ==
    seen_pmids \cup {a.pmid : a \in Range(deduped_digest)}

\* main, the loop that adds the identifiers of the articles actually included
update_seen(seen_pmids, deduped_digest) ==
    seen_pmids \cup ({strip(a.pmid) : a \in Range(deduped_digest)} \ {<<>>})

(***************************************************************************)
(* The fetch run: main() of fetch_cardiology_pubmed.py                      *)
(***************************************************************************)
Stopped == {"idle", "done", "failed"}
Ended == {"done", "failed"}

\* The fields of the output payload that the runs and the claims read
NoPayload ==
    [articles |-> <<>>, digest_count_pre_dedupe |-> 0, digest_count |-> 0,
     previously_seen_removed |-> 0, priority |-> 0, standard |-> 0]

FetchIdle ==
    [pc |-> "idle", exit |-> 0, failed_at |-> "none", test_mode |-> FALSE,
     skip_state |-> FALSE,
     file_at_start |-> AbsentFile, loaded |-> {}, seen_pmids |-> {},
     digest_articles |-> <<>>, deduped_digest |-> <<>>, removed_dupes |-> 0,
     payload |-> NoPayload]

EmailIdle ==
    [pc |-> "idle", exit |-> 0, failed_at |-> "none", outcome |-> "none",
     test_mode |-> FALSE, no_send |-> FALSE, dry_run |-> FALSE,
     file_at_start |-> AbsentFile, loaded |-> {}, sent_pmids |-> {},
     unsent |-> <<>>, to_sum |-> <<>>, headlines_only |-> <<>>, summaries |-> <<>>,
     recipients |-> 0, next |-> 1, sent_count |-> 0, delivered |-> {}]

\* fetch_exit that always reports success
fetch_exit_success(code, where, file) ==
    [FetchIdle EXCEPT !.pc = "done", !.exit = 0, !.failed_at = where,
                      !.file_at_start = file]

\* return 1 / uncaught exception before any article is processed
fetch_exit(code, where, file) ==
    [FetchIdle EXCEPT !.pc = IF code = 0 THEN "done" ELSE "failed",
                      !.exit = code, !.failed_at = where, !.file_at_start = file]

\* build_payload counting the digest after the dedupe in both counters
build_payload_counting_kept(categorized, digest_articles, deduped_digest, removed_dupes) ==
    [articles |-> deduped_digest,
     digest_count_pre_dedupe |-> Len(deduped_digest),
     digest_count |-> Len(deduped_digest),
     previously_seen_removed |-> removed_dupes,
     priority |-> Len(categorized.priority),
     standard |-> Len(categorized.standard)]

build_payload(categorized, digest_articles, deduped_digest, removed_dupes) ==
    [articles |-> deduped_digest,
     digest_count_pre_dedupe |-> Len(digest_articles),
     digest_count |-> Len(deduped_digest),
     previously_seen_removed |-> removed_dupes,
     priority |-> Len(categorized.priority),
     standard |-> Len(categorized.standard)]

\* main from filter_and_categorize to the end of the state update loop
\* (everything between efetch_details and save_seen_pmids)
fetch_process(now, file, articles, include_no_abstract, test_mode, no_dedupe) ==
    LET categorized == filter_and_categorize(articles, include_no_abstract)
        digest_articles == prepare_digest(categorized)
        skip_state == test_mode \/ no_dedupe
        loaded == IF skip_state THEN Returned({}) ELSE load_seen_pmids(file)
        d == dedupe_articles_by_pmid(digest_articles, loaded.pmids)
        seen_pmids == IF skip_state THEN loaded.pmids
                      ELSE update_seen(loaded.pmids, d.kept)
    IN  IF loaded.raised THEN fetch_exit(1, "load", file)
        ELSE [pc |-> IF skip_state THEN "write_archive" ELSE "save_open",
              exit |-> 0, failed_at |-> "none", test_mode |-> test_mode,
              skip_state |-> skip_state,
              file_at_start |-> file, loaded |-> loaded.pmids,
              seen_pmids |-> seen_pmids,
              digest_articles |-> digest_articles, deduped_digest |-> d.kept,
              removed_dupes |-> d.removed,
              payload |-> build_payload(categorized, digest_articles,
                                        d.kept, d.removed)]

\* A run starts: what earlier runs and the last one did is now the past
past(h) == [earlier |-> h.earlier \cup h.now, now |-> {}]
NoHistory == [earlier |-> {}, now |-> {}]

\* run_weekly.py is not running
WeeklyIdle ==
    [pc |-> "idle", exit |-> 0, no_pmids |-> FALSE, dry_run_email |-> FALSE,
     test_mode |-> FALSE, seen_at_start |-> AbsentFile, sent_at_start |-> AbsentFile]

NoRunActive == ft.pc = "idle" /\ em.pc = "idle" /\ wk.pc = "idle"

\* main up to the first write: argument and configuration checks, the two
\* searches, efetch, classification, load and dedupe
FetchStart ==
    /\ NoRunActive
    /\ clock < MaxRuns
    /\ clock' = clock + 1
    /\ \/ \E where \in {"no_email", "transport"} : ft' = fetch_exit(1, where, seenFile)
       \/ ft' = fetch_exit(0, "none", seenFile)      \* "No PMIDs found."
       \/ \E articles \in FetchResults, include_no_abstract, test_mode, no_dedupe \in BOOLEAN :
             ft' = fetch_process(clock', seenFile, articles, include_no_abstract,
                                 test_mode, no_dedupe)
    /\ surfaced' = past(surfaced)
    /\ emailed' = past(emailed)
    /\ UNCHANGED <<seenFile, sentFile, latestFile, archives, em, pin, pout, wk, em2>>

\* save_seen_pmids, open(state_path, "w")
SaveSeenOpen ==
    /\ ft.pc = "save_open"
    /\ seenFile' = open_w(seenFile)
    /\ ft' = [ft EXCEPT !.pc = "save_dump"]
    /\ UNCHANGED <<sentFile, latestFile, archives, em, clock, surfaced, emailed, pin, pout, wk, em2>>

\* save_seen_pmids, json.dump and close
SaveSeenDump ==
    /\ ft.pc = "save_dump"
    /\ seenFile' = save_seen_payload(clock, ft.seen_pmids)
    /\ ft' = [ft EXCEPT !.pc = "write_archive"]
    /\ UNCHANGED <<sentFile, latestFile, archives, em, clock, surfaced, emailed, pin, pout, wk, em2>>

\* Identifiers an output document surfaces, recorded for runs that dedupe
surfaced_by(payload, skip_state) ==
    IF skip_state THEN {}
    ELSE {strip(a.pmid) : a \in Range(payload.articles)} \ {<<>>}


\* main, the date-stamped archive
WriteArchive ==
    /\ ft.pc = "write_archive"
    /\ archives' = archives + 1
    /\ surfaced' = [surfaced EXCEPT !.now = @ \cup surfaced_by(ft.payload, ft.skip_state)]
    /\ ft' = [ft EXCEPT !.pc = "latest_open"]
    /\ UNCHANGED <<seenFile, sentFile, latestFile, em, clock, emailed, pin, pout, wk, em2>>

\* main, open(output_path, "w") of the stable latest output
LatestOpen ==
    /\ ft.pc = "latest_open"
    /\ latestFile' = [kind |-> "truncated", payload |-> NoPayload]
    /\ ft' = [ft EXCEPT !.pc = "latest_dump"]
    /\ UNCHANGED <<seenFile, sentFile, archives, em, clock, surfaced, emailed, pin, pout, wk, em2>>

\* main, json.dump of the stable latest output, then return 0
LatestDump ==
    /\ ft.pc = "latest_dump"
    /\ latestFile' = [kind |-> "payload", payload |-> ft.payload]
    /\ surfaced' = [surfaced EXCEPT !.now = @ \cup surfaced_by(ft.payload, ft.skip_state)]
    /\ ft' = [ft EXCEPT !.pc = "done", !.exit = 0]
    /\ UNCHANGED <<seenFile, sentFile, archives, em, clock, emailed, pin, pout, wk, em2>>

\* An uncaught exception (OSError of open or write) or the death of the
\* process at the current step: the run ends there with a non-zero exit.
FetchAbort ==
    /\ ft.pc \notin Stopped
    /\ ft' = [ft EXCEPT !.pc = "failed", !.exit = 1, !.failed_at = ft.pc]
    /\ UNCHANGED <<seenFile, sentFile, latestFile, archives, em, clock, surfaced, emailed, pin, pout, wk, em2>>

\* raise SystemExit(main()): the process is gone, its exit status remains
FetchExit ==
    /\ ft.pc \in Ended
    /\ ft' = [FetchIdle EXCEPT !.exit = ft.exit]
    /\ UNCHANGED <<seenFile, sentFile, latestFile, archives, em, clock, surfaced, emailed, pin, pout, wk, em2>>

(***************************************************************************)
(* The email run: summarise_and_email.py                                    *)
(***************************************************************************)
\* The try body of load_sent_pmids
read_sent(file) ==
    IF file.kind \in {"truncated", "notdict"} THEN Raised
    ELSE IF file.kind = "notlist" THEN Returned({})
    ELSE Returned({strip(p) : p \in Range(file.items)} \ {<<>>})

load_sent_pmids(file) ==
    IF file.kind = "absent" THEN Returned({})
    ELSE LET r == read_sent(file)
         IN  IF r.raised THEN Returned({}) ELSE r

save_sent_payload(now, sent_pmids) == LedgerFile(now, sorted(sent_pmids))

parse_one(a) == [a EXCEPT !.pmid = strip(a.pmid)]

\* parse_articles: one Article per item, its string fields stripped
parse_articles(latest_payload) ==
    [i \in 1..Len(latest_payload.articles) |-> parse_one(latest_payload.articles[i])]

PRIORITY_STUDY_TYPES ==
    {"randomized controlled trial", "randomised controlled trial", "clinical trial",
     "meta-analysis", "systematic review", "multicenter study",
     "observational study", "cohort study"}

\* pt.lower().strip() on the publication types in use
lower_strip(pt) ==
    CASE pt = "Randomized Controlled Trial" -> "randomized controlled trial"
      [] pt = "Clinical Trial" -> "clinical trial"
      [] pt = "Meta-Analysis" -> "meta-analysis"
      [] pt = "Systematic Review" -> "systematic review"
      [] pt = "Multicenter Study" -> "multicenter study"
      [] pt = "Observational Study" -> "observational study"
      [] pt = "Comparative Study" -> "comparative study"
      [] pt = "Review" -> "review"
      [] pt = "Journal Article" -> "journal article"
      [] pt = "Editorial" -> "editorial"
      [] OTHER -> pt

is_priority_study(a) ==
    \/ {lower_strip(pt) : pt \in a.publication_types} \cap PRIORITY_STUDY_TYPES # {}
    \/ a.phrase

\* seq[:n]
slice_to(seq, n) ==
    LET stop == IF n >= 0 THEN (IF n < Len(seq) THEN n ELSE Len(seq))
                ELSE (IF Len(seq) + n > 0 THEN Len(seq) + n ELSE 0)
    IN  SubSeq(seq, 1, stop)

MinAbstractChars == 200

\* --max-summaries: its default and two smaller settings
DefaultMaxSummaries == 10
SummaryLimits == {0, 1, DefaultMaxSummaries}

\* select_for_summary with the three groups concatenated in reverse
select_standard_first(articles, max_summaries, min_abstract_chars) ==
    LET priority_studies == SelectSeq(articles, is_priority_study)
        non_priority_studies == SelectSeq(articles, LAMBDA a : ~is_priority_study(a))
        other_priority == SelectSeq(non_priority_studies, LAMBDA a : a.category = "priority")
        standard == SelectSeq(non_priority_studies, LAMBDA a : a.category = "standard")
        ordered == standard \o other_priority \o priority_studies
        eligible == SelectSeq(ordered, LAMBDA a : a.abstract_len >= min_abstract_chars)
        to_sum == slice_to(eligible, max_summaries)
        to_sum_pmids == {a.pmid : a \in Range(to_sum)}
        headlines == SelectSeq(ordered, LAMBDA a : a.pmid \notin to_sum_pmids)
    IN  [to_sum |-> to_sum, headlines |-> headlines]

select_for_summary(articles, max_summaries, min_abstract_chars) ==
    LET priority_studies == SelectSeq(articles, is_priority_study)
        non_priority_studies == SelectSeq(articles, LAMBDA a : ~is_priority_study(a))
        other_priority == SelectSeq(non_priority_studies, LAMBDA a : a.category = "priority")
        standard == SelectSeq(non_priority_studies, LAMBDA a : a.category = "standard")
        ordered == priority_studies \o other_priority \o standard
        eligible == SelectSeq(ordered, LAMBDA a : a.abstract_len >= min_abstract_chars)
        to_sum == slice_to(eligible, max_summaries)
        to_sum_pmids == {a.pmid : a \in Range(to_sum)}
        headlines == SelectSeq(ordered, LAMBDA a : a.pmid \notin to_sum_pmids)
    IN  [to_sum |-> to_sum, headlines |-> headlines]

\* main, "Filter already-sent articles"
filter_unsent(articles, sent_pmids, test_mode) ==
    IF test_mode THEN SelectSeq(articles, LAMBDA a : a.pmid # <<>>)
    ELSE SelectSeq(articles, LAMBDA a : a.pmid # <<>> /\ a.pmid \notin sent_pmids)

\* main, the loop that marks the unsent articles as sent
update_sent(sent_pmids, unsent) ==
    sent_pmids \cup {a.pmid : a \in {x \in Range(unsent) : x.pmid # <<>>}}

\* updates_sent_state without the test-mode check
updates_sent_state_in_test_mode(test_mode, no_send) == ~no_send

\* updates_sent_state without the no-send check
updates_sent_state_in_no_send(test_mode, no_send) == ~test_mode

\* main, "if not args.test_mode and not args.no_send"
updates_sent_state(test_mode, no_send) == ~test_mode /\ ~no_send

email_exit(code, why, file) ==
    [EmailIdle EXCEPT !.pc = IF code = 0 THEN "done" ELSE "failed",
                      !.exit = code, !.file_at_start = file,
                      !.failed_at = IF code = 0 THEN "none" ELSE why,
                      !.outcome = IF code = 0 THEN why ELSE "none"]

\* main from the existence check of the latest JSON to the OPENAI_API_KEY check
email_prepare(latest, file, test_mode, no_send, dry_run, max_summaries, key_ok) ==
    IF latest.kind = "absent" THEN email_exit(1, "no_latest", file)
    ELSE IF latest.kind = "truncated" THEN email_exit(1, "read_latest", file)
    ELSE
    LET articles == parse_articles(latest.payload)
        loaded == IF test_mode THEN Returned({}) ELSE load_sent_pmids(file)
        unsent == filter_unsent(articles, loaded.pmids, test_mode)
        sel == select_for_summary(unsent, max_summaries, MinAbstractChars)
    IN  IF articles = <<>> THEN email_exit(0, "no_articles", file)
        ELSE IF loaded.raised THEN email_exit(1, "load", file)
        ELSE IF unsent = <<>> THEN email_exit(0, "all_sent", file)
        ELSE IF ~key_ok THEN email_exit(1, "no_key", file)
        ELSE [EmailIdle EXCEPT !.pc = "summarise", !.test_mode = test_mode,
                               !.no_send = no_send, !.dry_run = dry_run,
                               !.file_at_start = file, !.loaded = loaded.pmids,
                               !.sent_pmids = loaded.pmids, !.unsent = unsent,
                               !.to_sum = sel.to_sum, !.headlines_only = sel.headlines]

EmailStart ==
    /\ NoRunActive
    /\ clock < MaxRuns
    /\ clock' = clock + 1
    /\ \E test_mode, no_send, dry_run, key_ok \in BOOLEAN, max_summaries \in SummaryLimits :
          em' = email_prepare(latestFile, sentFile, test_mode, no_send, dry_run,
                              max_summaries, key_ok)
    /\ surfaced' = past(surfaced)
    /\ emailed' = past(emailed)
    /\ UNCHANGED <<seenFile, sentFile, latestFile, archives, ft, pin, pout, wk, em2>>

\* Subsequence of seq at the positions in keep
RECURSIVE keep_at(_, _, _)
keep_at(seq, keep, i) ==
    IF i > Len(seq) THEN <<>>
    ELSE (IF i \in keep THEN <<seq[i]>> ELSE <<>>) \o keep_at(seq, keep, i + 1)

\* email_summarise with the skip check reduced to "if not summaries"
email_summarise_skip_without_summaries(e, ok, mail_ok, recipients) ==
    LET summaries == keep_at(e.to_sum, ok, 1)
    IN  IF summaries = <<>>
        THEN [e EXCEPT !.pc = "done", !.exit = 0, !.outcome = "skipped"]
        ELSE IF e.dry_run
        THEN [e EXCEPT !.pc = "done", !.exit = 0, !.outcome = "dry_run",
                       !.summaries = summaries]
        ELSE IF ~mail_ok \/ recipients = 0
        THEN [e EXCEPT !.pc = "failed", !.exit = 1, !.failed_at = "no_mail_config",
                       !.summaries = summaries]
        ELSE [e EXCEPT !.pc = "send", !.summaries = summaries,
                       !.recipients = recipients, !.next = 1]

\* main from the summarise loop to the recipient list: the articles at the
\* positions in ok are summarised, summarise_one raises for the others
email_summarise(e, ok, mail_ok, recipients) ==
    LET summaries == keep_at(e.to_sum, ok, 1)
    IN  IF summaries = <<>> /\ e.headlines_only = <<>>
        THEN [e EXCEPT !.pc = "done", !.exit = 0, !.outcome = "skipped"]
        ELSE IF e.dry_run
        THEN [e EXCEPT !.pc = "done", !.exit = 0, !.outcome = "dry_run",
                       !.summaries = summaries]
        ELSE IF ~mail_ok \/ recipients = 0
        THEN [e EXCEPT !.pc = "failed", !.exit = 1, !.failed_at = "no_mail_config",
                       !.summaries = summaries]
        ELSE [e EXCEPT !.pc = "send", !.summaries = summaries,
                       !.recipients = recipients, !.next = 1]

EmailSummarise ==
    /\ em.pc = "summarise"
    /\ \E ok \in SUBSET (1..Len(em.to_sum)), mail_ok \in BOOLEAN, recipients \in 0..MaxRecipients :
          em' = email_summarise(em, ok, mail_ok, recipients)
    /\ UNCHANGED <<seenFile, sentFile, latestFile, archives, ft, clock, surfaced, emailed, pin, pout, wk, em2>>

\* build_personalized_content: the identifiers in the cards and the headlines
payload_pmids(e) ==
    {a.pmid : a \in Range(e.summaries)} \cup {a.pmid : a \in Range(e.headlines_only)}

\* main, one iteration of the recipient loop.  Every recipient has an
\* address (fetch_subscribers_from_sheet and the EMAIL_TO split drop empty
\* ones), so "if not email: continue" is never taken.
EmailSend ==
    /\ em.pc = "send"
    /\ \E smtp_ok \in BOOLEAN :
          IF em.no_send \/ smtp_ok
          THEN /\ em' = [em EXCEPT !.sent_count = @ + 1,
                                   !.next = @ + 1,
                                   !.delivered = IF em.no_send THEN @ ELSE @ \cup {em.next},
                                   !.pc = IF em.next + 1 > em.recipients THEN "commit" ELSE "send"]
               /\ emailed' = IF em.no_send \/ em.test_mode THEN emailed
                             ELSE [emailed EXCEPT !.now = @ \cup
                                      {<<em.next, p>> : p \in payload_pmids(em)}]
          ELSE /\ em' = [em EXCEPT !.pc = "failed", !.exit = 1, !.failed_at = "send"]
               /\ UNCHANGED emailed
    /\ UNCHANGED <<seenFile, sentFile, latestFile, archives, ft, clock, surfaced, pin, pout, wk, em2>>

\* main after the recipient loop: the state update and open() of save_sent_pmids
EmailCommit ==
    /\ em.pc = "commit"
    /\ IF updates_sent_state(em.test_mode, em.no_send)
       THEN /\ em' = [em EXCEPT !.sent_pmids = update_sent(em.sent_pmids, em.unsent),
                                !.pc = "save_dump"]
            /\ sentFile' = open_w(sentFile)
       ELSE /\ em' = [em EXCEPT !.pc = "done", !.exit = 0,
                                !.outcome = IF em.no_send THEN "no_send" ELSE "test_mode"]
            /\ UNCHANGED sentFile
    /\ UNCHANGED <<seenFile, latestFile, archives, ft, clock, surfaced, emailed, pin, pout, wk, em2>>

\* write_json, json.dump and close, then return 0
EmailSaveDump ==
    /\ em.pc = "save_dump"
    /\ sentFile' = save_sent_payload(clock, em.sent_pmids)
    /\ em' = [em EXCEPT !.pc = "done", !.exit = 0, !.outcome = "sent"]
    /\ UNCHANGED <<seenFile, latestFile, archives, ft, clock, surfaced, emailed, pin, pout, wk, em2>>

\* An uncaught exception or the death of the process at the current step
EmailAbort ==
    /\ em.pc \notin Stopped
    /\ em' = [em EXCEPT !.pc = "failed", !.exit = 1, !.failed_at = em.pc]
    /\ UNCHANGED <<seenFile, sentFile, latestFile, archives, ft, clock, surfaced, emailed, pin, pout, wk, em2>>

\* raise SystemExit(main())
EmailExit ==
    /\ em.pc \in Ended
    /\ em' = [EmailIdle EXCEPT !.exit = em.exit]
    /\ UNCHANGED <<seenFile, sentFile, latestFile, archives, ft, clock, surfaced, emailed, pin, pout, wk, em2>>

(***************************************************************************)
(* The system: runs one at a time (single writer), each from start to end   *)
(***************************************************************************)
NoPure == [op |-> "none"]

Init ==
    /\ seenFile = AbsentFile
    /\ sentFile = AbsentFile
    /\ latestFile = [kind |-> "absent", payload |-> NoPayload]
    /\ archives = 0
    /\ ft = FetchIdle
    /\ em = EmailIdle
    /\ clock = 0
    /\ surfaced = NoHistory
    /\ emailed = NoHistory
    /\ pin = NoPure
    /\ pout = NoPure
    /\ wk = WeeklyIdle
    /\ em2 = EmailIdle

Next ==
    \/ FetchStart
    \/ SaveSeenOpen
    \/ SaveSeenDump
    \/ WriteArchive
    \/ LatestOpen
    \/ LatestDump
    \/ FetchAbort
    \/ FetchExit
    \/ EmailStart
    \/ EmailSummarise
    \/ EmailSend
    \/ EmailCommit
    \/ EmailSaveDump
    \/ EmailAbort
    \/ EmailExit

Spec == Init /\ [][Next]_vars

(***************************************************************************)
(* The weekly wrapper: main() of run_weekly.py                              *)
(***************************************************************************)
\* main up to the start of the fetch step: a missing script or contact email
\* returns 1; otherwise the fetch script is started with the wrapper's flags
\* and runs up to its first write
WeeklyStart ==
    /\ NoRunActive
    /\ clock + 1 < MaxRuns
    /\ \/ /\ wk' = [WeeklyIdle EXCEPT !.pc = "done", !.exit = 1,
                                       !.seen_at_start = seenFile,
                                       !.sent_at_start = sentFile]
          /\ UNCHANGED <<ft, clock, surfaced, emailed>>
       \/ /\ clock' = clock + 1
          /\ surfaced' = past(surfaced)
          /\ emailed' = past(emailed)
          /\ \E include_no_abstract, no_dedupe, dry_run_email, test_mode \in BOOLEAN :
                \E found \in {"raise", "none", "some"} :
                   /\ wk' = [pc |-> "fetch", exit |-> 0, no_pmids |-> (found = "none"),
                             dry_run_email |-> dry_run_email, test_mode |-> test_mode,
                             seen_at_start |-> seenFile, sent_at_start |-> sentFile]
                   /\ CASE found = "raise" -> ft' = fetch_exit(1, "transport", seenFile)
                        [] found = "none" -> ft' = fetch_exit(0, "none", seenFile)
                        [] OTHER ->
                             \E articles \in FetchResults :
                                ft' = fetch_process(clock', seenFile, articles,
                                                    include_no_abstract, test_mode, no_dedupe)
    /\ UNCHANGED <<seenFile, sentFile, latestFile, archives, em, pin, pout, em2>>

\* WeeklyEmail with subprocess.run(cmd) not checking the exit status
WeeklyEmailUnchecked ==
    /\ wk.pc = "fetch" /\ ft.pc = "idle"
    /\ wk' = [wk EXCEPT !.pc = "email"]
    /\ clock' = clock + 1
    /\ surfaced' = past(surfaced)
    /\ emailed' = past(emailed)
    /\ \E key_ok \in BOOLEAN :
          em' = email_prepare(latestFile, sentFile, wk.test_mode, FALSE,
                              wk.dry_run_email, DefaultMaxSummaries, key_ok)
    /\ UNCHANGED <<seenFile, sentFile, latestFile, archives, ft, pin, pout, em2>>

\* run_cmd(fetch_cmd) has returned or raised CalledProcessError; on exit 0
\* the email script is started with --dry-run and --test-mode as given
WeeklyEmail ==
    /\ wk.pc = "fetch" /\ ft.pc = "idle"
    /\ IF ft.exit # 0
       THEN /\ wk' = [wk EXCEPT !.pc = "done", !.exit = ft.exit]
            /\ UNCHANGED <<em, clock, surfaced, emailed>>
       ELSE /\ wk' = [wk EXCEPT !.pc = "email"]
            /\ clock' = clock + 1
            /\ surfaced' = past(surfaced)
            /\ emailed' = past(emailed)
            /\ \E key_ok \in BOOLEAN :
                  em' = email_prepare(latestFile, sentFile, wk.test_mode, FALSE,
                                      wk.dry_run_email, DefaultMaxSummaries, key_ok)
    /\ UNCHANGED <<seenFile, sentFile, latestFile, archives, ft, pin, pout, em2>>

\* run_cmd(email_cmd) has returned or raised CalledProcessError
WeeklyEnd ==
    /\ wk.pc = "email" /\ em.pc = "idle"
    /\ wk' = [wk EXCEPT !.pc = "done", !.exit = em.exit]
    /\ UNCHANGED <<seenFile, sentFile, latestFile, archives, ft, em, clock, surfaced,
                   emailed, pin, pout, em2>>

\* raise SystemExit(main())
WeeklyExit ==
    /\ wk.pc = "done"
    /\ wk' = [WeeklyIdle EXCEPT !.exit = wk.exit]
    /\ UNCHANGED <<seenFile, sentFile, latestFile, archives, ft, em, clock, surfaced,
                   emailed, pin, pout, em2>>

\* The scripts run by hand or through the wrapper, one run at a time
NextWeekly ==
    \/ Next
    \/ WeeklyStart
    \/ WeeklyEmail
    \/ WeeklyEnd
    \/ WeeklyExit

SpecWeekly == Init /\ [][NextWeekly]_vars

\* Only run_weekly.py is run: every fetch and email run is a step of the
\* wrapper
NextWrapper ==
    \/ WeeklyStart
    \/ SaveSeenOpen
    \/ SaveSeenDump
    \/ WriteArchive
    \/ LatestOpen
    \/ LatestDump
    \/ FetchAbort
    \/ FetchExit
    \/ WeeklyEmail
    \/ EmailSummarise
    \/ EmailSend
    \/ EmailCommit
    \/ EmailSaveDump
    \/ EmailAbort
    \/ EmailExit
    \/ WeeklyEnd
    \/ WeeklyExit

SpecWrapper == Init /\ [][NextWrapper]_vars

\* The scheduler switches between two email processes: the one that was
\* waiting takes the next steps
Switch ==
    /\ em # em2
    /\ ft.pc = "idle" /\ wk.pc = "idle"
    /\ em' = em2
    /\ em2' = em
    /\ UNCHANGED <<seenFile, sentFile, latestFile, archives, ft, clock, surfaced,
                   emailed, pin, pout, wk>>

\* The same system started on ledger files that were edited by hand: entries
\* out of order, padded, empty or whitespace-only
EditedFile == LedgerFile(0, << <<" ">>, <<"1", " ">>, <<>> >>)

InitEdited ==
    /\ seenFile = EditedFile
    /\ sentFile = EditedFile
    /\ latestFile = [kind |-> "absent", payload |-> NoPayload]
    /\ archives = 0
    /\ ft = FetchIdle
    /\ em = EmailIdle
    /\ clock = 0
    /\ surfaced = NoHistory
    /\ emailed = NoHistory
    /\ pin = NoPure
    /\ pout = NoPure
    /\ wk = WeeklyIdle
    /\ em2 = EmailIdle

SpecEdited == InitEdited /\ [][Next]_vars

\* The same system started after a fetch run that found a trial and a
\* meta-analysis, both with abstracts long enough to summarise, and
\* surfaced them
DigestArticles ==
    << parse_article(<<"1">>, {"Randomized Controlled Trial"}, 250, FALSE),
       parse_article(<<"5">>, {"Meta-Analysis"}, 300, FALSE) >>

DigestPayload ==
    build_payload(filter_and_categorize(DigestArticles, FALSE),
                  DigestArticles, DigestArticles, 0)

InitDigest ==
    /\ seenFile = save_seen_payload(0, update_seen({}, DigestArticles))
    /\ sentFile = AbsentFile
    /\ latestFile = [kind |-> "payload", payload |-> DigestPayload]
    /\ archives = 1
    /\ ft = FetchIdle
    /\ em = EmailIdle
    /\ clock = 0
    /\ surfaced = [earlier |-> {}, now |-> surfaced_by(DigestPayload, FALSE)]
    /\ emailed = NoHistory
    /\ pin = NoPure
    /\ pout = NoPure
    /\ wk = WeeklyIdle
    /\ em2 = EmailIdle

\* Only summarise_and_email.py is run on that digest
NextEmail ==
    \/ EmailStart
    \/ EmailSummarise
    \/ EmailSend
    \/ EmailCommit
    \/ EmailSaveDump
    \/ EmailAbort
    \/ EmailExit

SpecDigest == InitDigest /\ [][NextEmail]_vars

\* summarise_and_email.py started twice on that digest, the two processes
\* interleaved step by step
NextConcurrent ==
    \/ NextEmail
    \/ Switch

\* The digest of a fetch run that found and surfaced one trial
SingleArticle == SubSeq(DigestArticles, 1, 1)

SinglePayload ==
    build_payload(filter_and_categorize(SingleArticle, FALSE),
                  SingleArticle, SingleArticle, 0)

InitConcurrent ==
    /\ seenFile = save_seen_payload(0, update_seen({}, SingleArticle))
    /\ sentFile = AbsentFile
    /\ latestFile = [kind |-> "payload", payload |-> SinglePayload]
    /\ archives = 1
    /\ ft = FetchIdle
    /\ em = EmailIdle
    /\ clock = 0
    /\ surfaced = [earlier |-> {}, now |-> surfaced_by(SinglePayload, FALSE)]
    /\ emailed = NoHistory
    /\ pin = NoPure
    /\ pout = NoPure
    /\ wk = WeeklyIdle
    /\ em2 = EmailIdle

SpecConcurrent == InitConcurrent /\ [][NextConcurrent]_vars

\* The same system started after a weekly run whose fetch step found one
\* trial, wrote it to the output and saved it to the seen ledger, and whose
\* email step failed before save_sent_pmids: both the email script and the
\* wrapper exited with 1, the sent ledger was never written
InitAfterFailedEmail ==
    /\ seenFile = save_seen_payload(0, update_seen({}, SingleArticle))
    /\ sentFile = AbsentFile
    /\ latestFile = [kind |-> "payload", payload |-> SinglePayload]
    /\ archives = 1
    /\ ft = FetchIdle
    /\ em = [EmailIdle EXCEPT !.exit = 1]
    /\ clock = 0
    /\ surfaced = [earlier |-> {}, now |-> surfaced_by(SinglePayload, FALSE)]
    /\ emailed = NoHistory
    /\ pin = NoPure
    /\ pout = NoPure
    /\ wk = [WeeklyIdle EXCEPT !.exit = 1]
    /\ em2 = EmailIdle

SpecAfterFailedEmail == InitAfterFailedEmail /\ [][NextWeekly]_vars

(***************************************************************************)
(* The pure functions applied to bounded inputs                             *)
(***************************************************************************)
PurePmids == {<<>>, <<" ">>, <<"1">>, <<"1", " ">>, <<"2">>}

PureArticles == {parse_article(p, {}, 250, FALSE) : p \in PurePmids}

Buckets == UNION {[1..n -> PureArticles] : n \in 0..MaxBucket}

Ledgers == SUBSET {<<"1">>, <<"2">>, <<"1", " ">>}

LedgerFiles ==
    {AbsentFile, TruncatedFile, NotDictFile, NotListFile}
        \cup {LedgerFile(1, items) :
                 items \in UNION {[1..n -> {<<" ">>, <<"1">>, <<"1", " ">>}] : n \in 0..MaxItems}}

\* Publication-type tags: priority ones, excluded ones and a generic one
PubTypeTags ==
    {"Randomized Controlled Trial", "Review", "Editorial", "Letter", "Journal Article"}

\* One article of every category, for the router
RouterArticles ==
    Range(Catalog) \cup {parse_article(<<"5">>, {"Review"}, 0, FALSE)}

RouterInputs == UNION {[1..n -> RouterArticles] : n \in 0..MaxBucket}

\* Articles as parse_articles returns them, for select_for_summary: a trial,
\* a review, a generic article with a long and one with a short abstract
\* under the same identifier, an article without abstract or type, and a
\* generic article without identifier whose text names a cohort
SelectArticles ==
    {parse_article(<<"1">>, {"Randomized Controlled Trial"}, 250, FALSE),
     parse_article(<<"4">>, {"Review"}, 250, FALSE),
     parse_article(<<"2">>, {"Journal Article"}, 250, FALSE),
     parse_article(<<"2">>, {"Journal Article"}, 50, FALSE),
     parse_article(<<"3">>, {}, 0, FALSE),
     parse_article(<<>>, {"Journal Article"}, 250, TRUE)}

\* Identifiers for the ledger round trip: plain ones, one with inner
\* whitespace, and two that are not stripped or not non-empty
RoundTripIds == {<<"1">>, <<"2">>, <<"1", " ", "2">>, <<"1", " ">>, <<" ">>}

SelectInputs == UNION {[1..n -> SelectArticles] : n \in 0..MaxBucket}

\* --max-summaries is type=int: any integer is accepted
PureLimits == {-1, 0, 1, 2, DefaultMaxSummaries}

PureIn ==
    [op |-> "none", bucket |-> <<>>, ledger |-> {}, file |-> AbsentFile,
     pub_types |-> {}, has_abstract |-> FALSE, flag |-> FALSE, max_summaries |-> 0]

PureInputs ==
    {[PureIn EXCEPT !.op = "dedupe", !.bucket = b, !.ledger = l] :
        b \in Buckets, l \in Ledgers}
    \cup {[PureIn EXCEPT !.op = "load", !.bucket = b, !.file = f] :
        b \in Buckets, f \in LedgerFiles}
    \cup {[PureIn EXCEPT !.op = "classify", !.pub_types = t, !.has_abstract = h] :
        t \in SUBSET PubTypeTags, h \in BOOLEAN}
    \cup {[PureIn EXCEPT !.op = "filter", !.bucket = b, !.flag = f] :
        b \in RouterInputs, f \in BOOLEAN}
    \cup {[PureIn EXCEPT !.op = "select", !.bucket = b, !.max_summaries = m] :
        b \in SelectInputs, m \in PureLimits}
    \cup {[PureIn EXCEPT !.op = "roundtrip", !.ledger = l] : l \in SUBSET RoundTripIds}

InitPure ==
    /\ seenFile = AbsentFile
    /\ sentFile = AbsentFile
    /\ latestFile = [kind |-> "absent", payload |-> NoPayload]
    /\ archives = 0
    /\ ft = FetchIdle
    /\ em = EmailIdle
    /\ clock = 0
    /\ surfaced = NoHistory
    /\ emailed = NoHistory
    /\ pin \in PureInputs
    /\ pout = NoPure
    /\ wk = WeeklyIdle
    /\ em2 = EmailIdle

PureFrame == UNCHANGED <<seenFile, sentFile, latestFile, archives, ft, em, clock,
                         surfaced, emailed, pin, wk, em2>>

\* dedupe_articles_by_pmid on a bucket and a ledger
ApplyDedupe ==
    /\ pin.op = "dedupe" /\ pout.op = "none"
    /\ pout' = [op |-> "dedupe",
                result |-> dedupe_articles_by_pmid(pin.bucket, pin.ledger)]
    /\ PureFrame

\* fetch main: load_seen_pmids on a file, then the dedupe of a digest
ApplyLoadSeen ==
    /\ pin.op = "load" /\ pout.op = "none"
    /\ LET loaded == load_seen_pmids(pin.file)
           d == dedupe_articles_by_pmid(pin.bucket, loaded.pmids)
       IN  pout' = [op |-> "load_seen", loaded |-> loaded, input |-> pin.bucket,
                    kept |-> d.kept, removed |-> d.removed]
    /\ PureFrame

\* email main: load_sent_pmids on a file, then the filter of the articles
\* parsed from a latest JSON
ApplyLoadSent ==
    /\ pin.op = "load" /\ pout.op = "none"
    /\ LET loaded == load_sent_pmids(pin.file)
           articles == parse_articles([NoPayload EXCEPT !.articles = pin.bucket])
           unsent == filter_unsent(articles, loaded.pmids, FALSE)
       IN  pout' = [op |-> "load_sent", loaded |-> loaded, input |-> articles,
                    kept |-> unsent, removed |-> Len(articles) - Len(unsent)]
    /\ PureFrame

\* classify_article on a list of publication types and has_abstract
ApplyClassify ==
    /\ pin.op = "classify" /\ pout.op = "none"
    /\ pout' = [op |-> "classify",
                category |-> classify_article(pin.pub_types, pin.has_abstract)]
    /\ PureFrame

\* fetch main: filter_and_categorize on the fetched articles, then the digest
ApplyFilter ==
    /\ pin.op = "filter" /\ pout.op = "none"
    /\ LET categorized == filter_and_categorize(pin.bucket, pin.flag)
       IN  pout' = [op |-> "filter", categorized |-> categorized,
                    digest |-> prepare_digest(categorized)]
    /\ PureFrame

\* email main: select_for_summary on the unsent articles
ApplySelect ==
    /\ pin.op = "select" /\ pout.op = "none"
    /\ LET sel == select_for_summary(pin.bucket, pin.max_summaries, MinAbstractChars)
       IN  pout' = [op |-> "select", to_sum |-> sel.to_sum, headlines |-> sel.headlines]
    /\ PureFrame

\* save_seen_pmids then load_seen_pmids, and save_sent_pmids then
\* load_sent_pmids, on the file each save leaves behind
ApplyRoundTrip ==
    /\ pin.op = "roundtrip" /\ pout.op = "none"
    /\ pout' = [op |-> "roundtrip",
                seen |-> load_seen_pmids(save_seen_payload(1, pin.ledger)),
                sent |-> load_sent_pmids(save_sent_payload(1, pin.ledger))]
    /\ PureFrame

NextPure ==
    \/ ApplySelect
    \/ ApplyRoundTrip
    \/ ApplyDedupe
    \/ ApplyLoadSeen
    \/ ApplyLoadSent
    \/ ApplyClassify
    \/ ApplyFilter

SpecPure == InitPure /\ [][NextPure]_vars

(***************************************************************************)
(* Claims                                                                   *)
(***************************************************************************)
Blank(p) == strip(p) = <<>>

\* The fetch run is between its dedupe and the end of its output writes
FetchWriting ==
    ft.pc \in {"save_open", "save_dump", "write_archive", "latest_open", "latest_dump"}

\* The fetch run ended on a failed write of the archive or of the latest JSON
OutputWriteFailed ==
    ft.pc = "failed" /\ ft.failed_at \in {"write_archive", "latest_open", "latest_dump"}

\* C1: in a fetch run that dedupes, the seen-ledger file keeps its pre-run
\* content until both output artifacts are written, and keeps it when the
\* write of an output artifact fails.
C1_SeenSavedAfterArtifacts ==
    (~ft.skip_state /\ (FetchWriting \/ OutputWriteFailed))
        => seenFile = ft.file_at_start

\* C2: the sent-ledger file differs from its pre-run content only in a run
\* that is not dry-run, no-send or test-mode and in which the send call has
\* returned for every recipient of the loop.
C2_SentSavedAfterAllSends ==
    (em.pc # "idle" /\ sentFile # em.file_at_start)
        => /\ ~em.dry_run /\ ~em.no_send /\ ~em.test_mode
           /\ em.next > em.recipients
           /\ em.delivered = 1..em.recipients
           /\ em.recipients > 0

C2_Witness ==
    /\ em.pc = "done" /\ em.outcome = "sent"
    /\ em.recipients >= 2
    /\ sentFile # em.file_at_start
    /\ sentFile.kind = "ledger"

\* The email run has written its ledger
EmailCommitted == em.pc = "done" /\ em.outcome = "sent"

\* C3: every identifier an email run adds to the sent ledger was in the
\* payload it delivered, and no record whose summary call failed is added.
C3_LedgeredWereDelivered ==
    EmailCommitted =>
        /\ (Range(sentFile.items) \ em.loaded) \subseteq payload_pmids(em)
        /\ \A a \in Range(em.to_sum) :
              a \notin Range(em.summaries) => a.pmid \notin Range(sentFile.items)

\* C4: no identifier is delivered to a recipient by two email runs (runs not
\* in test mode, sharing the sent ledger, one at a time).
C4_AtMostOncePerRecipient == emailed.now \cap emailed.earlier = {}

\* C5: no non-empty identifier is in the "articles" of the outputs of two
\* deduping fetch runs.
C5_SurfacedOnce == surfaced.now \cap surfaced.earlier = {}

\* C6: after a crash inside save_seen_pmids or save_sent_pmids the ledger
\* file holds the complete previous content or the complete new content.
C6_SaveIsCrashSafe ==
    /\ (ft.pc = "failed" /\ ft.failed_at \in {"save_open", "save_dump"})
          => seenFile \in {ft.file_at_start, save_seen_payload(clock, ft.seen_pmids)}
    /\ (em.pc = "failed" /\ em.failed_at \in {"commit", "save_dump"})
          => sentFile \in {em.file_at_start, save_sent_payload(clock, em.sent_pmids)}

\* The fetch run has completed save_seen_pmids
SeenSaved ==
    /\ ~ft.skip_state
    /\ \/ ft.pc \in {"write_archive", "latest_open", "latest_dump"}
       \/ OutputWriteFailed
       \/ ft.pc = "done" /\ ft.failed_at = "none" /\ ft.file_at_start # seenFile

BadLedgerFiles == {AbsentFile, TruncatedFile, NotDictFile, NotListFile}

\* C7: on a ledger file that is absent, unparsable or of the wrong shape,
\* load_seen_pmids and load_sent_pmids return the empty set without raising,
\* and the dedupe that follows keeps every input record and removes none.
C7_LoadFailsOpen ==
    (pout.op \in {"load_seen", "load_sent"} /\ pin.file \in BadLedgerFiles)
        => /\ ~pout.loaded.raised
           /\ pout.loaded.pmids = {}
           /\ pout.kept = pout.input
           /\ pout.removed = 0

\* C9: the ledgers held in memory never contain an empty or whitespace-only
\* identifier, and neither does a ledger file written by a run.
C9_NoBlankIdentifiers ==
    /\ \A p \in ft.loaded \cup ft.seen_pmids \cup em.loaded \cup em.sent_pmids : ~Blank(p)
    /\ seenFile.updated_at > 0 => \A p \in Range(seenFile.items) : ~Blank(p)
    /\ sentFile.updated_at > 0 => \A p \in Range(sentFile.items) : ~Blank(p)

C9_Witness ==
    /\ ft.pc = "done" /\ SeenSaved
    /\ ft.file_at_start = EditedFile
    /\ \E a \in Range(ft.deduped_digest) : Blank(a.pmid)
    /\ seenFile.kind = "ledger" /\ seenFile.updated_at > 0

\* C10: dedupe_articles_by_pmid keeps, in input order, exactly the records
\* whose stripped identifier is empty or not in the ledger, and counts the
\* records whose non-empty identifier is in the ledger.
C10_DedupeKeepsUnseen ==
    pout.op = "dedupe" =>
        /\ pout.result.kept =
              SelectSeq(pin.bucket,
                        LAMBDA a : Blank(a.pmid) \/ strip(a.pmid) \notin pin.ledger)
        /\ pout.result.removed =
              Cardinality({i \in 1..Len(pin.bucket) :
                              ~Blank(pin.bucket[i].pmid)
                              /\ strip(pin.bucket[i].pmid) \in pin.ledger})
        /\ ((\A a \in Range(pin.bucket) : Blank(a.pmid) \/ strip(a.pmid) \in pin.ledger)
              => \A a \in Range(pout.result.kept) : Blank(a.pmid))

C10_Witness ==
    /\ pout.op = "dedupe"
    /\ pout.result.removed >= 1
    /\ Len(pout.result.kept) >= 1
    /\ \A a \in Range(pin.bucket) : Blank(a.pmid) \/ strip(a.pmid) \in pin.ledger
    /\ \E a \in Range(pin.bucket) : a.pmid = <<"1", " ">>

\* The email run is past "Filter already-sent articles" with its locals alive
EmailFiltered ==
    \/ em.pc \in {"summarise", "send", "commit", "save_dump"}
    \/ em.pc = "done" /\ em.outcome \in {"all_sent", "skipped", "dry_run", "sent",
                                          "no_send", "test_mode"}

Categories == {"excluded", "priority", "priority_no_abstract", "standard", "low_priority"}

\* C12: classify_article returns one of the five categories, the one fixed by
\* whether the tags meet the exclude set, whether they meet the priority set
\* and has_abstract; tags that meet the exclude set give "excluded" also when
\* they meet the priority set.
C12_ClassifierTotalExcludeWins ==
    pout.op = "classify" =>
        LET ex == pin.pub_types \cap EXCLUDE_PUB_TYPES # {}
            pr == pin.pub_types \cap PRIORITY_PUB_TYPES # {}
            c == pout.category
        IN  /\ c \in Categories
            /\ (c = "excluded") = ex
            /\ (c = "priority") = (~ex /\ pr /\ pin.has_abstract)
            /\ (c = "priority_no_abstract") = (~ex /\ pr /\ ~pin.has_abstract)
            /\ (c = "standard") = (~ex /\ ~pr /\ pin.has_abstract)
            /\ (c = "low_priority") = (~ex /\ ~pr /\ ~pin.has_abstract)

C12_Witness ==
    /\ pout.op = "classify"
    /\ pin.pub_types \cap EXCLUDE_PUB_TYPES # {}
    /\ pin.pub_types \cap PRIORITY_PUB_TYPES # {}
    /\ pin.has_abstract
    /\ pout.category = "excluded"

\* Number of occurrences of record r in sequence seq
occurrences(r, seq) == Cardinality({i \in 1..Len(seq) : seq[i] = r})

BucketNames == {"priority", "standard", "needs_review", "excluded"}

\* C13: filter_and_categorize puts every occurrence of an input record in
\* exactly one bucket: a record is in one bucket only, as often as it is in
\* the input, and the buckets hold nothing else.
C13_RouterPartitions ==
    pout.op = "filter" =>
        LET c == pout.categorized
        IN  /\ \A r \in Range(pin.bucket) :
                  /\ Cardinality({b \in BucketNames : r \in Range(c[b])}) = 1
                  /\ \A b \in BucketNames :
                        r \in Range(c[b]) => occurrences(r, c[b]) = occurrences(r, pin.bucket)
            /\ \A b \in BucketNames : Range(c[b]) \subseteq Range(pin.bucket)
            /\ Len(c.priority) + Len(c.standard) + Len(c.needs_review) + Len(c.excluded)
                  = Len(pin.bucket)

C13_Witness ==
    /\ pout.op = "filter"
    /\ Len(pin.bucket) = MaxBucket
    /\ Cardinality(Range(pin.bucket)) = MaxBucket
    /\ pout.categorized.excluded # <<>>
    /\ pout.categorized.priority # <<>>
    /\ pout.categorized.standard # <<>>

InDigestCategory(a) == a.category \in {"priority", "standard"}

\* C14 as stated: the digest is the input restricted to the records of
\* category priority or standard, in input order.
C14_DigestInInputOrder ==
    pout.op = "filter" => pout.digest = SelectSeq(pin.bucket, InDigestCategory)

\* C14: the digest holds exactly the records of category priority or
\* standard: the priority records in input order, then the standard records
\* in input order.
C14_DigestPriorityThenStandard ==
    pout.op = "filter" =>
        pout.digest = SelectSeq(pin.bucket, LAMBDA a : a.category = "priority")
                        \o SelectSeq(pin.bucket, LAMBDA a : a.category = "standard")

C14_Witness ==
    /\ pout.op = "filter"
    /\ Len(pin.bucket) >= 2
    /\ pin.bucket[1].category = "standard"
    /\ pin.bucket[2].category = "priority"
    /\ pout.digest = <<pin.bucket[2], pin.bucket[1]>>

\* The bucket the routing table gives a category under the include flag
expected_bucket(category, include) ==
    CASE category = "excluded" -> "excluded"
      [] category = "priority" -> "priority"
      [] category = "standard" -> "standard"
      [] OTHER -> IF include THEN "needs_review" ELSE "excluded"

\* C15: excluded records go to "excluded", priority and standard records to
\* their digest buckets, priority_no_abstract and low_priority records to
\* "needs_review" when the include flag is true and to "excluded" otherwise.
C15_RoutingTable ==
    pout.op = "filter" =>
        \A r \in Range(pin.bucket), b \in BucketNames :
            (r \in Range(pout.categorized[b])) = (b = expected_bucket(r.category, pin.flag))

C15_Witness ==
    /\ pout.op = "filter"
    /\ ~pin.flag
    /\ {a.category : a \in Range(pin.bucket)}
          = {"priority_no_abstract", "low_priority", "excluded"}
    /\ Len(pout.categorized.excluded) = MaxBucket
    /\ pout.categorized.needs_review = <<>>

\* C16: the list select_for_summary returns for summarising is no longer
\* than the configured maximum, for every integer maximum (a negative
\* maximum allowing no record at all).
C16_EnrichBounded ==
    pout.op = "select" =>
        Len(pout.to_sum) <= (IF pin.max_summaries >= 0 THEN pin.max_summaries ELSE 0)

\* C17: every occurrence of a record in the input of select_for_summary is in
\* exactly one of the two lists it returns, and the lists hold nothing else.
C17_SelectionPartitions ==
    pout.op = "select" =>
        /\ \A r \in Range(pin.bucket) :
              occurrences(r, pout.to_sum) + occurrences(r, pout.headlines)
                  = occurrences(r, pin.bucket)
        /\ Range(pout.to_sum) \cup Range(pout.headlines) \subseteq Range(pin.bucket)

\* The email run is past its summarise loop
AfterSummaryLoop ==
    \/ em.pc \in {"send", "commit", "save_dump"}
    \/ em.pc = "done" /\ em.outcome \in {"skipped", "dry_run", "sent", "no_send", "test_mode"}
    \/ em.pc = "failed" /\ em.failed_at \in {"no_mail_config", "send", "commit", "save_dump"}

\* summarise_one raised for at least one selected record
SummaryFailed == AfterSummaryLoop /\ Len(em.summaries) < Len(em.to_sum)

\* The email run went through the recipient loop and the ledger step
PastCommit == em.pc = "done" /\ em.outcome \in {"sent", "no_send", "test_mode"}

\* C18 as stated: an email run (not a dry run) in which a summary call failed
\* and which ended with exit 0 has built and sent the email and has gone
\* through the sent-ledger step.
C18_SummaryFailureNeverStops ==
    (SummaryFailed /\ em.pc = "done" /\ ~em.dry_run) => PastCommit

\* C18: a failed summary call does not end the email run as long as there is
\* something to send: with a summary or a headline left the run (not a dry
\* run) that ends with exit 0 has sent the email and gone through the
\* sent-ledger step; the run is skipped, with exit 0 and the sent ledger
\* untouched, only when no summary succeeded and there are no headlines.
C18_SummaryFailureStopsOnlyEmptyEmail ==
    /\ (/\ SummaryFailed /\ em.pc = "done" /\ ~em.dry_run
        /\ (em.summaries # <<>> \/ em.headlines_only # <<>>))
          => PastCommit
    /\ em.outcome = "skipped"
          => /\ em.summaries = <<>> /\ em.headlines_only = <<>>
             /\ em.exit = 0
             /\ sentFile = em.file_at_start

C18_Witness ==
    /\ em.pc = "done" /\ em.outcome = "sent"
    /\ SummaryFailed
    /\ Len(em.to_sum) >= 2
    /\ em.summaries # <<>>
    /\ em.delivered = 1..em.recipients /\ em.recipients >= 1
    /\ sentFile.kind = "ledger"

\* C19: a weekly run whose fetch step found no PMIDs ends with exit 0, with
\* both ledger files as they were when it started and with no email
\* delivered.
C19_ZeroRecordsIsNoOp ==
    (wk.pc = "done" /\ wk.no_pmids) =>
        /\ wk.exit = 0
        /\ seenFile = wk.seen_at_start
        /\ sentFile = wk.sent_at_start
        /\ emailed.now = {}

\* Places where a fetch run can end before save_seen_pmids, and an email run
\* before save_sent_pmids
FetchAbortsBeforeSave == {"no_email", "transport", "save_open"}
EmailAbortsBeforeSave ==
    {"no_latest", "read_latest", "no_key", "no_mail_config", "summarise", "send", "commit"}

\* C20: a run that ended before its ledger save (missing contact email,
\* transport failure, missing OPENAI_API_KEY, missing mail configuration, or
\* an abort at a step before the save) has failed with a non-zero exit and
\* has left its ledger file as it was at the start of the run; a fetch run
\* never touches the sent ledger nor an email run the seen ledger.
C20_AbortBeforeSaveLeavesLedger ==
    /\ ft.failed_at \in FetchAbortsBeforeSave
          => /\ ft.pc = "failed" /\ ft.exit # 0
             /\ seenFile = ft.file_at_start
    /\ em.failed_at \in EmailAbortsBeforeSave
          => /\ em.pc = "failed" /\ em.exit # 0
             /\ sentFile = em.file_at_start
    /\ (ft.pc = "failed" /\ ft.skip_state) => seenFile = ft.file_at_start

C20_Witness ==
    /\ ft.pc = "failed" /\ ft.failed_at = "transport"
    /\ ft.exit = 1
    /\ seenFile.kind = "ledger" /\ seenFile.items # <<>>
    /\ seenFile = ft.file_at_start

\* A step of a run in test mode
TestModeStep ==
    \/ ft.test_mode \/ ft'.test_mode
    \/ em.test_mode \/ em'.test_mode
    \/ (wk.test_mode /\ wk.pc # "done") \/ wk'.test_mode

\* C21: a fetch run and an email run in test mode work on an empty ledger
\* whatever the ledger files hold (the fetch run keeps its whole digest, the
\* email run every record with an identifier), and no step of a run in test
\* mode changes the seen-ledger file or the sent-ledger file.
C21_TestModeIgnoresState ==
    /\ [](ft.test_mode =>
             /\ ft.loaded = {} /\ ft.seen_pmids = {}
             /\ ft.deduped_digest = ft.digest_articles /\ ft.removed_dupes = 0
             /\ seenFile = ft.file_at_start)
    /\ [](em.test_mode =>
             /\ em.loaded = {} /\ em.sent_pmids = {}
             /\ em.unsent = filter_unsent(parse_articles(latestFile.payload),
                                          load_sent_pmids(AbsentFile).pmids, FALSE)
             /\ sentFile = em.file_at_start)
    /\ [][TestModeStep => UNCHANGED <<seenFile, sentFile>>]_vars

C21_Witness ==
    /\ em.pc = "done" /\ em.outcome = "test_mode" /\ em.test_mode
    /\ em.delivered # {}
    /\ sentFile = EditedFile
    /\ seenFile = EditedFile
    /\ \E a \in Range(em.unsent) : a.pmid \in load_sent_pmids(sentFile).pmids

\* C22: in a weekly run the email script is started only after the fetch
\* script has exited, and only if it exited with status 0; when the fetch
\* script exits non-zero the wrapper returns that status without starting
\* the email script; after the email script the wrapper returns its status.
C22_WrapperOrderAndExit ==
    /\ [](wk.pc = "email" => (ft.pc = "idle" /\ ft.exit = 0))
    /\ [](wk.pc = "fetch" => em.pc = "idle")
    /\ [][(wk.pc = "fetch" /\ wk'.pc = "email") =>
             (ft.pc = "idle" /\ ft.exit = 0 /\ em.pc = "idle" /\ em'.pc # "idle")]_vars
    /\ [][(wk.pc = "fetch" /\ wk'.pc = "done") =>
             (ft.exit # 0 /\ wk'.exit = ft.exit /\ em' = em)]_vars
    /\ [][(wk.pc = "email" /\ wk'.pc = "done") => wk'.exit = em.exit]_vars
    /\ [][(wk.pc # "email" /\ wk'.pc # "email" /\ wk'.pc # "idle" /\ wk.pc # "idle")
             => em' = em]_vars

C22_Witness ==
    /\ wk.pc = "done" /\ wk.exit = 1
    /\ ft.exit = 0 /\ em.exit = 1
    /\ latestFile.kind = "payload" /\ latestFile.payload.articles # <<>>

\* Both email processes have delivered to a recipient, neither in test mode
BothDelivered ==
    /\ em.delivered # {} /\ em2.delivered # {}
    /\ ~em.test_mode /\ ~em2.test_mode

\* C23: two email runs that overlap in time on the same latest JSON and sent
\* ledger email no identifier twice, and once both have written the ledger
\* it holds every identifier either delivered.
C23_ConcurrentAtMostOnce ==
    /\ BothDelivered => payload_pmids(em) \cap payload_pmids(em2) = {}
    /\ (/\ em.pc = "done" /\ em.outcome = "sent"
        /\ em2.pc = "done" /\ em2.outcome = "sent")
          => (payload_pmids(em) \cup payload_pmids(em2)) \subseteq Range(sentFile.items)

StrippedNonEmpty(S) == \A p \in S : p # <<>> /\ strip(p) = p

\* C24: for every set S of non-empty stripped identifiers, loading the file
\* written by save with S returns exactly S, for the seen and the sent ledger
C24_SaveLoadRoundTrip ==
    (pout.op = "roundtrip" /\ StrippedNonEmpty(pin.ledger)) =>
        /\ ~pout.seen.raised /\ pout.seen.pmids = pin.ledger
        /\ ~pout.sent.raised /\ pout.sent.pmids = pin.ledger

C24_Witness ==
    /\ pout.op = "roundtrip"
    /\ pin.ledger = {<<"1">>, <<"2">>, <<"1", " ", "2">>}
    /\ pout.seen.pmids = pin.ledger
    /\ pout.sent.pmids = pin.ledger

\* 1 for a priority study, 2 for another record of category priority, 3 for
\* a record of category standard
study_rank(a) ==
    IF is_priority_study(a) THEN 1
    ELSE IF a.category = "priority" THEN 2
    ELSE IF a.category = "standard" THEN 3
    ELSE 4

of_rank(seq, k) == SelectSeq(seq, LAMBDA a : study_rank(a) = k)

ranked(bucket) == of_rank(bucket, 1) \o of_rank(bucket, 2) \o of_rank(bucket, 3)

rank_ordered(seq) ==
    \A i, j \in 1..Len(seq) : i < j => study_rank(seq[i]) <= study_rank(seq[j])

pmids_of(seq) == {a.pmid : a \in Range(seq)}

\* C25: select_for_summary orders the bucket as priority studies, then the
\* other records of category priority, then the records of category
\* standard, each group in input order, and returns the remainder (and the
\* enrich subset) in this order
C25_RankedOrder ==
    pout.op = "select" =>
        /\ rank_ordered(pout.headlines)
        /\ rank_ordered(pout.to_sum)
        /\ \A k \in 1..3 :
              of_rank(pout.headlines, k)
                  = SelectSeq(of_rank(pin.bucket, k),
                              LAMBDA a : a.pmid \notin pmids_of(pout.to_sum))
        /\ pout.to_sum = <<>> => pout.headlines = ranked(pin.bucket)

C25_Witness ==
    /\ pout.op = "select"
    /\ Len(pin.bucket) = 3
    /\ study_rank(pin.bucket[1]) = 3
    /\ study_rank(pin.bucket[2]) = 2
    /\ study_rank(pin.bucket[3]) = 1
    /\ ~is_priority_study(pin.bucket[1]) /\ pin.bucket[3].phrase
    /\ pout.to_sum = <<>>
    /\ pout.headlines = <<pin.bucket[3], pin.bucket[2], pin.bucket[1]>>

first_n(seq, n) ==
    SubSeq(seq, 1, IF n < 0 THEN 0 ELSE IF n < Len(seq) THEN n ELSE Len(seq))

\* C26: the enrich subset is the first max_enrich records of the ranked
\* ordering restricted to records whose abstract has at least the minimum
\* length; the remainder is every record of the unrestricted ranked ordering
\* whose identifier was not chosen, the records below the minimum included
C26_EnrichIsEligiblePrefix ==
    pout.op = "select" =>
        /\ pout.to_sum
              = first_n(SelectSeq(ranked(pin.bucket),
                                  LAMBDA a : a.abstract_len >= MinAbstractChars),
                        pin.max_summaries)
        /\ pout.headlines
              = SelectSeq(ranked(pin.bucket),
                          LAMBDA a : a.pmid \notin pmids_of(pout.to_sum))

empty_ids(seq) == Len(SelectSeq(seq, LAMBDA a : a.pmid = <<>>))

\* C27: records with an empty identifier are told apart by object identity:
\* when one of them is chosen for enrichment, every other record of the
\* bucket with an empty identifier still appears in the remainder (stated
\* for the limits that are counts)
C27_EmptyIdKeptInRemainder ==
    (pout.op = "select" /\ pin.max_summaries >= 0 /\ empty_ids(pout.to_sum) > 0) =>
        empty_ids(pout.to_sum) + empty_ids(pout.headlines) = empty_ids(pin.bucket)

InDigest == {"priority", "standard"}

\* C28: a fetch run that dedupes adds to the seen ledger exactly the
\* non-empty identifiers of the deduped digest; the identifiers of records
\* routed to excluded or needs_review are never added
C28_SeenGetsDigestIds ==
    /\ SeenSaved =>
          /\ seenFile.kind = "ledger"
          /\ Range(seenFile.items)
                = ft.loaded \cup ({strip(a.pmid) : a \in Range(ft.deduped_digest)} \ {<<>>})
          /\ \A a \in Range(ft.deduped_digest) : a.category \in InDigest
    /\ \A a \in Range(Catalog) :
          a.category \notin InDigest => strip(a.pmid) \notin Range(seenFile.items)

C28_Witness ==
    /\ ft.pc = "done" /\ SeenSaved
    /\ ft.loaded # {}
    /\ \E a, b \in Range(ft.deduped_digest) :
          /\ Blank(a.pmid)
          /\ strip(b.pmid) # b.pmid
          /\ strip(b.pmid) \in Range(seenFile.items) \ ft.loaded

counts_consistent(p) ==
    /\ p.digest_count_pre_dedupe = p.priority + p.standard
    /\ p.digest_count + p.previously_seen_removed = p.digest_count_pre_dedupe
    /\ p.digest_count = Len(p.articles)

\* C30: in every output document digest_count_pre_dedupe equals
\* statistics.priority + statistics.standard, and digest_count +
\* previously_seen_removed equals digest_count_pre_dedupe
C30_PayloadCountsAddUp ==
    /\ FetchWriting => counts_consistent(ft.payload)
    /\ latestFile.kind = "payload" => counts_consistent(latestFile.payload)

C30_Witness ==
    /\ ft.pc = "done"
    /\ latestFile.kind = "payload"
    /\ latestFile.payload = ft.payload
    /\ latestFile.payload.priority = 1
    /\ latestFile.payload.standard = 1
    /\ latestFile.payload.previously_seen_removed = 1
    /\ latestFile.payload.digest_count = 1

\* A weekly run whose fetch step deduped and saved the seen ledger has ended
\* with exit 0, and its email step sent the digest
WeeklyEmailSucceeded ==
    /\ wk.pc = "done" /\ wk.exit = 0
    /\ seenFile.kind = "ledger" /\ seenFile # wk.seen_at_start
    /\ ~wk.test_mode /\ ~wk.dry_run_email
    /\ em.exit = 0
    /\ emailed.now # {}

\* C29: an article that a fetch run wrote to the output and saved to the
\* seen ledger, and that the following email run failed to send, has been
\* emailed once a later weekly run's email step has succeeded
C29_SurfacedIsDelivered ==
    WeeklyEmailSucceeded =>
        \A a \in Range(SingleArticle) :
            \E r \in 1..MaxRecipients : <<r, a.pmid>> \in emailed.earlier \cup emailed.now

====
